---- MODULE Spec2Model ----
(***************************************************************************)
(* Model of the codecs of pkg/api/apisix/types/types.go (api7/adc):        *)
(*   PluginMetadata.MarshalJSON / UnmarshalJSON   (dynamic metadata)       *)
(*   Plugins.UnmarshalJSON / DeepCopy             (plugin configuration)   *)
(*   StringOrSlice.MarshalJSON / UnmarshalJSON    (scalar or list)         *)
(*                                                                         *)
(* JSON text is modelled as a token sequence: an object is the sequence of *)
(* its <<key, value>> members in the order they stand in the text, so that *)
(* encoding (sorted keys) and decoding (last duplicate wins) are not the   *)
(* identity.  Decoded values are Go interface{} values: a record with the  *)
(* reflect.Kind of the value and its fmt "%v" rendering.                   *)
(***************************************************************************)
EXTENDS Integers, Sequences, FiniteSets, TLC

VARIABLES
  pm,       \* the PluginMetadata value: [ID, Config]
  pmLast,   \* the last call on pm: operation, input, state before, result
  gs,       \* concurrent MarshalJSON calls on pm: goroutine -> [pc, out]
  crashed,  \* the Go runtime ended the process (fatal error)
  heap,     \* the Go maps behind the Plugins values: address -> map object
  pls,      \* the Plugins values held: handle -> [made, isNil, m: name -> address]
  plLast,   \* the last operation on a Plugins value
  sos,      \* the StringOrSlice value: [StrVal, SliceVal]
  sosLast,  \* the last call on sos
  nodes,    \* the UpstreamNodes value: nil, or a sequence of nodes
  nodesLast \* the last call on nodes

pmVars == <<pm, pmLast>>
concVars == <<gs, crashed>>
plVars == <<heap, pls, plLast>>
sosVars == <<sos, sosLast>>
nodeVars == <<nodes, nodesLast>>

-----------------------------------------------------------------------------
(* Bounds *)

\* Longest payload object, in members.
MaxMembers == 2

\* Goroutines calling MarshalJSON on one PluginMetadata at the same time.
NumGoroutines == 2

\* Mutations callers make to the Plugins values they hold.
MaxMutations == 2

-----------------------------------------------------------------------------
(* Decoded JSON values, as encoding/json stores them in an interface{} *)

JString(s) == [kind |-> "string", val |-> s]
JNumber == [kind |-> "float64", val |-> "42"]
JBool == [kind |-> "bool", val |-> "true"]
JNull == [kind |-> "nil", val |-> "<nil>"]
JArray == [kind |-> "slice", val |-> "[1]"]
JObject == [kind |-> "map", val |-> "map[n:1]"]

\* The values an "id" member takes in the payloads: strings and every other kind.
IdStrings == {"", "abc"}
JValues == {JString(s) : s \in IdStrings} \cup {JNumber, JBool, JNull, JArray, JObject}
\* The values a configuration member takes in the payloads.
FieldValues == {JNumber}

\* Every map key of the model (member names, plugin names, field names), in
\* the byte order json.Marshal sorts map keys by.
KeysSorted == <<"custom", "d", "id", "k", "limit-count", "n", "x">>
\* The member names of the dynamic-metadata payloads.
Keys == {"id", "x"}

\* A Go map[string]interface{}: nil, or a finite map.
EmptyMap == [k \in {} |-> JNull]
NilConfig == [isNil |-> TRUE, m |-> EmptyMap]
MakeConfig(m) == [isNil |-> FALSE, m |-> m]

Put(m, k, v) == [x \in (DOMAIN m) \cup {k} |-> IF x = k THEN v ELSE m[x]]
Delete(m, k) == [x \in (DOMAIN m) \ {k} |-> m[x]]

\* json.Marshal of a map: one member per key, keys sorted.
json_Marshal_map(m) ==
  LET present == SelectSeq(KeysSorted, LAMBDA k : k \in DOMAIN m)
  IN  [i \in DOMAIN present |-> <<present[i], m[present[i]]>>]

\* json.Unmarshal of an object text into a map: members are stored in text
\* order, so a repeated key keeps its last value.
json_Unmarshal_map(members) ==
  LET ks == {members[i][1] : i \in DOMAIN members}
      last(k) == CHOOSE i \in DOMAIN members :
                   /\ members[i][1] = k
                   /\ \A j \in DOMAIN members : members[j][1] = k => j <= i
  IN  [k \in ks |-> members[last(k)][2]]

-----------------------------------------------------------------------------
(* Payloads handed to PluginMetadata.UnmarshalJSON *)

Members == ({"id"} \X JValues) \cup ((Keys \ {"id"}) \X FieldValues)
MemberSeqs == UNION {[1..n -> Members] : n \in 0..MaxMembers}

Payloads ==
  {[shape |-> "object", members |-> ms] : ms \in MemberSeqs}
    \cup {[shape |-> "null", members |-> <<>>], [shape |-> "array", members |-> <<>>]}

NoPayload == [shape |-> "none", members |-> <<>>]

-----------------------------------------------------------------------------
(* PluginMetadata.MarshalJSON, statement by statement *)

\* if s.Config == nil { s.Config = make(map[string]interface{}) }
EnsureConfig(s) ==
  IF s.Config.isNil THEN [s EXCEPT !.Config = MakeConfig(EmptyMap)] ELSE s

\* Mutant: the identifier is not put back among the fields.
SetConfigId_Skipped(s) == s

\* s.Config["id"] = s.ID
SetConfigId(s) == [s EXCEPT !.Config.m = Put(s.Config.m, "id", JString(s.ID))]

\* delete(s.Config, "id")
DeleteConfigId(s) == [s EXCEPT !.Config.m = Delete(s.Config.m, "id")]

\* The whole call, run alone: the bytes returned and the receiver afterwards.
PluginMetadata_MarshalJSON(s) ==
  LET s1 == SetConfigId(EnsureConfig(s))
  IN  [out |-> json_Marshal_map(s1.Config.m), after |-> DeleteConfigId(s1)]

-----------------------------------------------------------------------------
(* PluginMetadata.UnmarshalJSON *)

\* reflect.TypeOf(id).Kind(): TypeOf(nil) is the nil Type, and calling Kind
\* on it is a nil dereference, a run-time panic.
reflect_Kind(v) == IF v.kind = "nil" THEN "panic" ELSE v.kind

\* fmt.Sprintf("%v", id)
fmt_Sprintf_v(v) == v.val

PluginMetadata_UnmarshalJSON(s, p) ==
  IF p.shape = "array"
  THEN [status |-> "error", after |-> s]
  ELSE IF p.shape = "null"
  THEN [status |-> "ok", after |-> [s EXCEPT !.Config = NilConfig]]
  ELSE
    LET config == json_Unmarshal_map(p.members)
    IN  IF "id" \in DOMAIN config
        THEN IF reflect_Kind(config["id"]) = "panic"
             THEN [status |-> "panic", after |-> s]
             ELSE IF reflect_Kind(config["id"]) # "string"
             THEN [status |-> "InvalidIdentifier", after |-> s]
             ELSE [status |-> "ok",
                   after |-> [ID |-> fmt_Sprintf_v(config["id"]),
                              Config |-> MakeConfig(Delete(config, "id"))]]
        ELSE [status |-> "ok", after |-> [s EXCEPT !.Config = MakeConfig(config)]]

-----------------------------------------------------------------------------
(* The PluginMetadata value and the calls made on it, one at a time *)

\* A PluginMetadata as a caller may build it: the zero value, or a literal.
PMInitValues ==
  {[ID |-> id, Config |-> c] :
     id \in {"", "abc"},
     c \in {NilConfig, MakeConfig(EmptyMap), MakeConfig([k \in {"x"} |-> JNumber])}}

NoCall == [op |-> "none", before |-> [ID |-> "", Config |-> NilConfig],
           payload |-> NoPayload, status |-> "ok", out |-> <<>>]

PMIdle == pm = [ID |-> "", Config |-> NilConfig] /\ pmLast = NoCall
ConcIdle == gs = <<>> /\ crashed = FALSE

\* pmLast.payload of a MarshalJSON call is the payload the receiver was decoded
\* from by the call just before it, if that was a successful decode.
Marshal ==
  LET r == PluginMetadata_MarshalJSON(pm)
      decodedFrom == IF pmLast.op = "UnmarshalJSON" /\ pmLast.status = "ok"
                     THEN pmLast.payload ELSE NoPayload
  IN  /\ pm' = r.after
      /\ pmLast' = [op |-> "MarshalJSON", before |-> pm, payload |-> decodedFrom,
                    status |-> "ok", out |-> r.out]

Unmarshal ==
  \E p \in Payloads :
    LET r == PluginMetadata_UnmarshalJSON(pm, p)
    IN  /\ pm' = r.after
        /\ pmLast' = [op |-> "UnmarshalJSON", before |-> pm, payload |-> p,
                      status |-> r.status, out |-> <<>>]

\* Config is an exported map: a caller stores a field in it.
SetConfigField ==
  \E k \in Keys, v \in {JString("def")} :
    /\ ~pm.Config.isNil
    /\ pm' = [pm EXCEPT !.Config.m = Put(pm.Config.m, k, v)]
    /\ pmLast' = [NoCall EXCEPT !.op = "SetConfigField", !.before = pm]

-----------------------------------------------------------------------------
(* Plugin configuration: type Plugin map[string]interface{} and             *)
(* type Plugins map[string]Plugin.  Go maps are references, so the maps live *)
(* in a heap; a record's field holds a number or the address of a nested map *)
(* (one level of nesting).                                                   *)

Num(n) == [kind |-> "num", n |-> n, o |-> <<>>]
Obj(o) == [kind |-> "obj", n |-> 0, o |-> o]
Ref(a) == [kind |-> "ref", n |-> a, o |-> <<>>]

PluginNames == {"limit-count", "custom"}
Handles == {"p", "c1", "c2"}

NoPlugins == [made |-> FALSE, isNil |-> TRUE, m |-> <<>>]
NilPlugins == [made |-> TRUE, isNil |-> TRUE, m |-> <<>>]

SortedKeys(S) == SelectSeq(KeysSorted, LAMBDA k : k \in S)

\* The value of the record at address a, nested maps included.
TreeOf(H, a) ==
  [f \in DOMAIN H[a] |-> IF H[a][f].kind = "ref" THEN Obj(H[H[a][f].n]) ELSE H[a][f]]

\* The value of a Plugins mapping: plugin name -> record value.
DeepVal(H, p) == [nm \in DOMAIN p.m |-> TreeOf(H, p.m[nm])]

\* JSON text of a record value, and the record value of a JSON text.
EncodeTree(T) ==
  json_Marshal_map([f \in DOMAIN T |->
     IF T[f].kind = "obj" THEN Obj(json_Marshal_map(T[f].o)) ELSE T[f]])

ParseRecord(text) ==
  LET M == json_Unmarshal_map(text)
  IN  [f \in DOMAIN M |->
         IF M[f].kind = "obj" THEN Obj(json_Unmarshal_map(M[f].o)) ELSE M[f]]

\* json.Marshal(&p): "null" for a nil map, else the entries with sorted names.
Plugins_Marshal(H, p) ==
  IF p.isNil
  THEN [shape |-> "null", members |-> <<>>]
  ELSE [shape |-> "object",
        members |-> json_Marshal_map([nm \in DOMAIN p.m |-> EncodeTree(TreeOf(H, p.m[nm]))])]

\* The schema defaults of the plugins the provider knows.
PluginDefaults == [nm \in {"limit-count"} |-> [f \in {"d"} |-> Num(1)]]

\* GetPluginDefaultValues(name, config): the defaults of a known plugin with
\* the supplied values overriding them; the supplied record for another name.
GetPluginDefaultValues(name, config) ==
  IF name \in DOMAIN PluginDefaults
  THEN [f \in (DOMAIN PluginDefaults[name]) \cup (DOMAIN config) |->
          IF f \in DOMAIN config THEN config[f] ELSE PluginDefaults[name][f]]
  ELSE config

\* A decoded record becomes fresh maps: its nested maps, then the record.
RECURSIVE AllocFields(_, _, _, _)
AllocFields(H, T, fs, cells) ==
  IF fs = <<>>
  THEN [heap |-> Append(H, cells), addr |-> Len(H) + 1]
  ELSE LET f == Head(fs)
       IN  IF T[f].kind = "obj"
           THEN AllocFields(Append(H, T[f].o), T, Tail(fs), Put(cells, f, Ref(Len(H) + 1)))
           ELSE AllocFields(H, T, Tail(fs), Put(cells, f, T[f]))

NewObject(H, T) == AllocFields(H, T, SortedKeys(DOMAIN T), <<>>)

\* Mutant: the receiver's earlier entries are dropped by a decode.
ReceiverMap_Cleared(recv) == <<>>

\* if p == nil || *p == nil { *p = make(Plugins) }: a non-nil map is kept,
\* with the entries it holds.
ReceiverMap(recv) == IF recv.isNil THEN <<>> ELSE recv.m

\* for name, config := range plugins { (*p)[name] = GetPluginDefaultValues(name, config) }
RECURSIVE StoreEntries(_, _, _, _)
StoreEntries(H, m, names, parsed) ==
  IF names = <<>>
  THEN [heap |-> H, m |-> m]
  ELSE LET nm == Head(names)
           r == NewObject(H, GetPluginDefaultValues(nm, ParseRecord(parsed[nm])))
       IN  StoreEntries(r.heap, Put(m, nm, r.addr), Tail(names), parsed)

Plugins_UnmarshalJSON(H, recv, cont) ==
  IF cont.shape = "array"
  THEN [status |-> "error", heap |-> H, p |-> recv]
  ELSE LET parsed == json_Unmarshal_map(cont.members)
           r == StoreEntries(H, ReceiverMap(recv), SortedKeys(DOMAIN parsed), parsed)
       IN  [status |-> "ok", heap |-> r.heap,
            p |-> [made |-> TRUE, isNil |-> FALSE, m |-> r.m]]

\* Mutant: the copy is the receiver's own map.
Plugins_DeepCopy_Shared(H, p) == [heap |-> H, p |-> p]

\* Mutant: the copy is a new map holding the receiver's own records.
Plugins_DeepCopy_Shallow(H, p) ==
  [heap |-> H, p |-> [made |-> TRUE, isNil |-> FALSE, m |-> p.m]]

\* DeepCopy of a non-nil *Plugins: out := new(Plugins); b, _ := json.Marshal(&p);
\* _ = json.Unmarshal(b, out), which calls out.UnmarshalJSON(b).
Plugins_DeepCopy(H, p) ==
  LET r == Plugins_UnmarshalJSON(H, NilPlugins, Plugins_Marshal(H, p))
  IN  [heap |-> r.heap, p |-> r.p]

\* The garbage collector: maps no Plugins value reaches are gone, and the
\* rest are numbered in the order a walk from the handles meets them.  The
\* sharing between the values is kept as it is.
HandleSeq == <<"p", "c1", "c2">>

RECURSIVE Flatten(_)
Flatten(ss) == IF ss = <<>> THEN <<>> ELSE Head(ss) \o Flatten(Tail(ss))

RECURSIVE Dedup(_, _)
Dedup(s, acc) ==
  IF s = <<>> THEN acc
  ELSE IF \E i \in DOMAIN acc : acc[i] = Head(s)
       THEN Dedup(Tail(s), acc)
       ELSE Dedup(Tail(s), Append(acc, Head(s)))

Reached(H, P) ==
  LET recordsOf(h) == LET ns == SortedKeys(DOMAIN P[h].m)
                      IN  [j \in DOMAIN ns |-> P[h].m[ns[j]]]
      nestedOf(a) == LET fs == SelectSeq(KeysSorted,
                                 LAMBDA f : f \in DOMAIN H[a] /\ H[a][f].kind = "ref")
                     IN  [j \in DOMAIN fs |-> H[a][fs[j]].n]
      roots == Flatten([i \in DOMAIN HandleSeq |-> recordsOf(HandleSeq[i])])
  IN  Dedup(Flatten([i \in DOMAIN roots |-> <<roots[i]>> \o nestedOf(roots[i])]), <<>>)

Collect(H, P) ==
  LET live == Reached(H, P)
      new(a) == CHOOSE i \in DOMAIN live : live[i] = a
  IN  [heap |-> [i \in DOMAIN live |->
                   [f \in DOMAIN H[live[i]] |->
                      IF H[live[i]][f].kind = "ref"
                      THEN Ref(new(H[live[i]][f].n)) ELSE H[live[i]][f]]],
       pls |-> [h \in DOMAIN P |->
                  [P[h] EXCEPT !.m = [nm \in DOMAIN P[h].m |-> new(P[h].m[nm])]]]]

(* Payloads handed to Plugins.UnmarshalJSON *)

\* The records supplied: {} and {"n": {"k": 1}, "d": 2}.
RecordTexts ==
  { <<>>,
    << <<"n", Obj(<< <<"k", Num(1)>> >>)>>, <<"d", Num(2)>> >> }

PluginMembers == PluginNames \X RecordTexts

PluginsPayloads ==
  {[shape |-> "object", members |-> ms] :
     ms \in UNION {[1..n -> PluginMembers] : n \in 0..MaxMembers}}
    \cup {[shape |-> "null", members |-> <<>>], [shape |-> "array", members |-> <<>>]}

NoPlCall == [op |-> "none", target |-> "p", src |-> "p", status |-> "ok",
             payload |-> NoPayload, before |-> <<>>, count |-> 0]

PlIdle ==
  /\ heap = <<>>
  /\ pls = [h \in Handles |-> NoPlugins]
  /\ plLast = NoPlCall

-----------------------------------------------------------------------------
(* StringOrSlice: a string or a string slice.  JSON text is a sequence of     *)
(* tokens: a quoted string is one token, whatever characters it holds.        *)

\* Longest list, in elements.
MaxList == 2

Strings == {"a", "["}

TStr(x) == [t |-> "string", s |-> x]
TOpen == [t |-> "[", s |-> ""]
TClose == [t |-> "]", s |-> ""]
TComma == [t |-> ",", s |-> ""]
TNull == [t |-> "null", s |-> ""]
TNum == [t |-> "number", s |-> "42"]

NilSlice == [isNil |-> TRUE, s |-> <<>>]
Slice(L) == [isNil |-> FALSE, s |-> L]

ZeroStringOrSlice == [StrVal |-> "", SliceVal |-> NilSlice]

\* json.Marshal of a string and of a non-nil []string.
json_Marshal_string(x) == <<TStr(x)>>

json_Marshal_slice(L) ==
  <<TOpen>>
    \o [i \in 1..(IF L = <<>> THEN 0 ELSE 2 * Len(L) - 1) |->
          IF i % 2 = 1 THEN TStr(L[(i + 1) \div 2]) ELSE TComma]
    \o <<TClose>>

\* Whether the text is a JSON array of strings, and the list it denotes.
IsStringArray(p) ==
  /\ Len(p) >= 2
  /\ p[1] = TOpen
  /\ p[Len(p)] = TClose
  /\ LET inner == SubSeq(p, 2, Len(p) - 1)
     IN  /\ inner = <<>> \/ Len(inner) % 2 = 1
         /\ \A i \in DOMAIN inner :
              IF i % 2 = 1 THEN inner[i].t = "string" ELSE inner[i] = TComma

ArrayElements(p) ==
  LET inner == SubSeq(p, 2, Len(p) - 1)
  IN  [i \in 1..((Len(inner) + 1) \div 2) |-> inner[2 * i - 1].s]

\* Mutant: a list of one element is emitted as the bare string.
StringOrSlice_MarshalJSON_Collapsing(s) ==
  IF ~s.SliceVal.isNil
  THEN IF Len(s.SliceVal.s) = 1
       THEN json_Marshal_string(s.SliceVal.s[1])
       ELSE json_Marshal_slice(s.SliceVal.s)
  ELSE json_Marshal_string(s.StrVal)

StringOrSlice_MarshalJSON(s) ==
  IF ~s.SliceVal.isNil
  THEN json_Marshal_slice(s.SliceVal.s)
  ELSE json_Marshal_string(s.StrVal)

\* json.Unmarshal(p, &s.SliceVal): the slice is reset and refilled; an empty
\* array gives an empty non-nil slice.  Nothing is stored on a syntax error.
StringOrSlice_UnmarshalJSON(s, p) ==
  IF Len(p) = 0
  THEN [status |-> "empty object", after |-> s]
  ELSE IF p[1] = TOpen
  THEN IF IsStringArray(p)
       THEN [status |-> "ok", after |-> [s EXCEPT !.SliceVal = Slice(ArrayElements(p))]]
       ELSE [status |-> "error", after |-> s]
  ELSE IF Len(p) = 1 /\ p[1].t = "string"
  THEN [status |-> "ok", after |-> [s EXCEPT !.StrVal = p[1].s]]
  ELSE IF p = <<TNull>>
  THEN [status |-> "ok", after |-> s]
  ELSE [status |-> "error", after |-> s]

Lists == UNION {[1..n -> Strings] : n \in 0..MaxList}

SosPayloads ==
  {json_Marshal_slice(L) : L \in Lists}
    \cup {json_Marshal_string(x) : x \in Strings \cup {""}}
    \cup {<<>>, <<TNull>>, <<TNum>>, <<TOpen, TStr("a")>>, <<TStr("a"), TComma>>}

NoSosCall == [op |-> "none", payload |-> <<>>, status |-> "ok", out |-> <<>>,
              before |-> ZeroStringOrSlice]

SosIdle == sos = ZeroStringOrSlice /\ sosLast = NoSosCall

SosMarshal ==
  /\ sosLast' = [NoSosCall EXCEPT !.op = "MarshalJSON", !.before = sos,
                                 !.out = StringOrSlice_MarshalJSON(sos)]
  /\ UNCHANGED sos

SosUnmarshal ==
  \E p \in SosPayloads :
    LET r == StringOrSlice_UnmarshalJSON(sos, p)
    IN  /\ sos' = r.after
        /\ sosLast' = [NoSosCall EXCEPT !.op = "UnmarshalJSON", !.before = sos,
                                       !.payload = p, !.status = r.status]

-----------------------------------------------------------------------------
(* Operations on the Plugins values *)

\* The step's effect on the heap and the handles, after collection.
PlStep(H, P, last) ==
  LET c == Collect(H, P)
  IN  /\ heap' = c.heap
      /\ pls' = c.pls
      /\ plLast' = last

\* json.Unmarshal(cont, &p) on the Plugins value held as "p".
PlDecode ==
  \E cont \in PluginsPayloads :
    LET recv == IF pls["p"].made THEN pls["p"] ELSE NilPlugins
        r == Plugins_UnmarshalJSON(heap, recv, cont)
    IN  PlStep(r.heap, [pls EXCEPT !["p"] = r.p],
               [NoPlCall EXCEPT !.op = "UnmarshalJSON", !.status = r.status,
                                !.payload = cont, !.before = DeepVal(heap, recv)])

\* pls[dst] = pls[src].DeepCopy()
PlDeepCopy ==
  \E src \in Handles, dst \in Handles \ {"p"} :
    /\ pls[src].made
    /\ ~pls[dst].made
    /\ LET r == Plugins_DeepCopy(heap, pls[src])
       IN  PlStep(r.heap, [pls EXCEPT ![dst] = r.p],
                  [plLast EXCEPT !.op = "DeepCopy", !.target = dst, !.src = src])

Mutated(op, h) ==
  [plLast EXCEPT !.op = op, !.target = h, !.src = h, !.count = plLast.count + 1]

CanMutate(h) ==
  /\ plLast.count < MaxMutations
  /\ pls[h].made
  /\ ~pls[h].isNil

\* p[name] = Plugin{}
PlAddPlugin ==
  \E h \in Handles, nm \in PluginNames :
    /\ CanMutate(h)
    /\ nm \notin DOMAIN pls[h].m
    /\ PlStep(Append(heap, <<>>), [pls EXCEPT ![h].m = Put(pls[h].m, nm, Len(heap) + 1)],
              Mutated("AddPlugin", h))

\* delete(p, name)
PlRemovePlugin ==
  \E h \in Handles :
    /\ CanMutate(h)
    /\ \E nm \in DOMAIN pls[h].m :
         PlStep(heap, [pls EXCEPT ![h].m = Delete(pls[h].m, nm)], Mutated("RemovePlugin", h))

\* p[name]["d"] = 3
PlSetField ==
  \E h \in Handles :
    /\ CanMutate(h)
    /\ \E nm \in DOMAIN pls[h].m :
         PlStep([heap EXCEPT ![pls[h].m[nm]] = Put(@, "d", Num(3))], pls,
                Mutated("SetField", h))

\* delete(p[name], "d")
PlDeleteField ==
  \E h \in Handles :
    /\ CanMutate(h)
    /\ \E nm \in DOMAIN pls[h].m :
         /\ "d" \in DOMAIN heap[pls[h].m[nm]]
         /\ PlStep([heap EXCEPT ![pls[h].m[nm]] = Delete(@, "d")], pls,
                   Mutated("DeleteField", h))

\* p[name]["n"].(map[string]interface{})["k"] = 3
PlSetNested ==
  \E h \in Handles :
    /\ CanMutate(h)
    /\ \E nm \in DOMAIN pls[h].m :
         LET rec == heap[pls[h].m[nm]]
         IN  /\ "n" \in DOMAIN rec
             /\ rec["n"].kind = "ref"
             /\ PlStep([heap EXCEPT ![rec["n"].n] = Put(@, "k", Num(3))], pls,
                       Mutated("SetNested", h))

-----------------------------------------------------------------------------
(* UpstreamNodes: the node list of an upstream.  A key of the map shape is a  *)
(* sequence of characters; a weight is a float64, held in tenths (37 is 3.7). *)

\* Longest node-set payload, in members.
MaxNodeMembers == 2

DigitChars == <<"0", "1", "2", "3", "4", "5", "6", "7", "8", "9">>
IsDigit(c) == \E i \in DOMAIN DigitChars : DigitChars[i] = c
DigitValue(c) == (CHOOSE i \in DOMAIN DigitChars : DigitChars[i] = c) - 1

\* strings.Split(key, ":"): the segments between the colons, "" included.
RECURSIVE strings_Split(_, _, _)
strings_Split(s, cur, acc) ==
  IF s = <<>> THEN Append(acc, cur)
  ELSE IF Head(s) = ":"
       THEN strings_Split(Tail(s), <<>>, Append(acc, cur))
       ELSE strings_Split(Tail(s), Append(cur, Head(s)), acc)

\* strconv.Atoi on unsigned text: an error for "" and for any non-digit.
RECURSIVE AtoiDigits(_, _)
AtoiDigits(s, acc) ==
  IF s = <<>> THEN acc ELSE AtoiDigits(Tail(s), acc * 10 + DigitValue(Head(s)))

strconv_Atoi(s) ==
  IF s # <<>> /\ \A i \in DOMAIN s : IsDigit(s[i])
  THEN [ok |-> TRUE, v |-> AtoiDigits(s, 0)]
  ELSE [ok |-> FALSE, v |-> 0]

\* int(val) of a float64: the fraction is dropped, towards zero.
go_int(val) == IF val >= 0 THEN val \div 10 ELSE -((-val) \div 10)

ZeroNode == [Host |-> <<>>, Port |-> 0, Weight |-> 0]

\* Mutant: segments after the second are ignored.
mapKV2Node_Lenient(key, val) ==
  LET hp == strings_Split(key, <<>>, <<>>)
      a == strconv_Atoi(IF Len(hp) >= 2 THEN hp[2] ELSE <<"8", "0">>)
  IN  IF ~a.ok
      THEN [err |-> "parse port to int fail", node |-> ZeroNode]
      ELSE [err |-> "", node |-> [Host |-> hp[1], Port |-> a.v, Weight |-> go_int(val)]]

\* Mutant: the weight is rounded up, not truncated.
mapKV2Node_Rounding(key, val) ==
  LET hp == strings_Split(key, <<>>, <<>>)
      a == strconv_Atoi(IF Len(hp) = 2 THEN hp[2] ELSE <<"8", "0">>)
  IN  IF Len(hp) > 2
      THEN [err |-> "invalid upstream node", node |-> ZeroNode]
      ELSE IF ~a.ok
      THEN [err |-> "parse port to int fail", node |-> ZeroNode]
      ELSE [err |-> "",
            node |-> [Host |-> hp[1], Port |-> a.v, Weight |-> go_int(val + 9)]]

mapKV2Node(key, val) ==
  LET hp == strings_Split(key, <<>>, <<>>)
      host == hp[1]
      port == IF Len(hp) = 2 THEN hp[2] ELSE <<"8", "0">>
      a == strconv_Atoi(port)
  IN  IF Len(hp) > 2
      THEN [err |-> "invalid upstream node", node |-> ZeroNode]
      ELSE IF ~a.ok
      THEN [err |-> "parse port to int fail", node |-> ZeroNode]
      ELSE [err |-> "",
            node |-> [Host |-> host, Port |-> a.v, Weight |-> go_int(val)]]

\* for k, v := range value { ... data = append(data, *node) }, the keys met in
\* the order `order`; the first key that fails ends the loop.
RECURSIVE NodesFromMap(_, _, _)
NodesFromMap(order, value, data) ==
  IF order = <<>>
  THEN [err |-> "", data |-> data]
  ELSE LET r == mapKV2Node(Head(order), value[Head(order)])
       IN  IF r.err # ""
           THEN [err |-> r.err, data |-> data]
           ELSE NodesFromMap(Tail(order), value,
                             [isNil |-> FALSE, s |-> Append(data.s, r.node)])

\* The orders a range over a map with these keys may take.
IterationOrders(S) ==
  {f \in [1..Cardinality(S) -> S] : \A i, j \in DOMAIN f : f[i] = f[j] => i = j}

JsonStr(x) == [s |-> x, n |-> 0]
JsonNum(x) == [s |-> <<>>, n |-> x]

\* json.Unmarshal of one array element into an UpstreamNode.
DecodeNode(item) ==
  LET o == json_Unmarshal_map(item)
  IN  [Host |-> IF "host" \in DOMAIN o THEN o["host"].s ELSE <<>>,
       Port |-> IF "port" \in DOMAIN o THEN o["port"].n ELSE 0,
       Weight |-> IF "weight" \in DOMAIN o THEN o["weight"].n ELSE 0]

\* json.Marshal of an UpstreamNode: every field is omitempty.
EncodeNode(nd) ==
  SelectSeq(<< <<"host", JsonStr(nd.Host)>>, <<"port", JsonNum(nd.Port)>>,
               <<"weight", JsonNum(nd.Weight)>> >>,
            LAMBDA mem : mem[2] # JsonStr(<<>>))

\* Mutant: a failed decode stores the nodes built so far.
UpstreamNodes_UnmarshalJSON_Partial(n, p, order) ==
  IF p.shape = "object"
  THEN LET r == NodesFromMap(order, json_Unmarshal_map(p.members), NilSlice)
       IN  [status |-> IF r.err = "" THEN "ok" ELSE r.err, after |-> r.data]
  ELSE IF p.shape = "null"
  THEN [status |-> "ok", after |-> NilSlice]
  ELSE [status |-> "ok", after |-> Slice([i \in DOMAIN p.items |-> DecodeNode(p.items[i])])]

\* `order` is the order the range over the decoded map takes.
UpstreamNodes_UnmarshalJSON(n, p, order) ==
  IF p.shape = "object"
  THEN LET r == NodesFromMap(order, json_Unmarshal_map(p.members), NilSlice)
       IN  IF r.err # ""
           THEN [status |-> r.err, after |-> n]
           ELSE [status |-> "ok", after |-> r.data]
  ELSE IF p.shape = "null"
  THEN [status |-> "ok", after |-> NilSlice]
  ELSE [status |-> "ok", after |-> Slice([i \in DOMAIN p.items |-> DecodeNode(p.items[i])])]

\* json.Marshal of an UpstreamNodes (it has no MarshalJSON of its own, and
\* Upstream.Nodes is not omitempty): a nil slice is null, any other an array.
UpstreamNodes_Marshal(n) ==
  IF n.isNil
  THEN [shape |-> "null", items |-> <<>>]
  ELSE [shape |-> "array", items |-> [i \in DOMAIN n.s |-> EncodeNode(n.s[i])]]

(* Payloads handed to UpstreamNodes.UnmarshalJSON *)

\* "h", "g:81"; "h:", "h:x", "h:8:8"
GoodKeys == {<<"h">>, <<"g", ":", "8", "1">>}
BadKeys == {<<"h", ":">>, <<"h", ":", "x">>, <<"h", ":", "8", ":", "8">>}

\* 3.7 for the keys that parse, and -1.5 too for the first; 1.0 for the others.
NodeMembers == (GoodKeys \X {37}) \cup {<<<<"h">>, -15>>} \cup (BadKeys \X {10})

NodeItems ==
  << << <<"host", JsonStr(<<"h">>)>>, <<"port", JsonNum(8)>>, <<"weight", JsonNum(1)>> >>,
     << <<"host", JsonStr(<<"g">>)>> >> >>

NodesPayloads ==
  {[shape |-> "object", members |-> ms, items |-> <<>>] :
     ms \in UNION {[1..k -> NodeMembers] : k \in 0..MaxNodeMembers}}
    \cup {[shape |-> "array", members |-> <<>>, items |-> SubSeq(NodeItems, 1, k)] :
            k \in 0..Len(NodeItems)}
    \cup {[shape |-> "null", members |-> <<>>, items |-> <<>>]}

NoNodesCall == [op |-> "none", payload |-> [shape |-> "none", members |-> <<>>, items |-> <<>>],
                status |-> "ok", before |-> NilSlice,
                out |-> [shape |-> "none", items |-> <<>>]]

NodesIdle == nodes = NilSlice /\ nodesLast = NoNodesCall

NodesUnmarshal ==
  \E p \in NodesPayloads :
    \E order \in IterationOrders(DOMAIN json_Unmarshal_map(p.members)) :
      LET r == UpstreamNodes_UnmarshalJSON(nodes, p, order)
      IN  /\ nodes' = r.after
          /\ nodesLast' = [NoNodesCall EXCEPT !.op = "UnmarshalJSON", !.payload = p,
                                             !.status = r.status, !.before = nodes]

NodesMarshal ==
  /\ nodesLast' = [NoNodesCall EXCEPT !.op = "MarshalJSON", !.before = nodes,
                                     !.out = UpstreamNodes_Marshal(nodes)]
  /\ UNCHANGED nodes

-----------------------------------------------------------------------------
(* Specification of the dynamic-metadata codec, one call at a time *)

vars == <<pm, pmLast, gs, crashed, heap, pls, plLast, sos, sosLast, nodes, nodesLast>>

Init ==
  /\ pm \in PMInitValues
  /\ pmLast = NoCall
  /\ ConcIdle
  /\ PlIdle
  /\ SosIdle
  /\ NodesIdle

PMNext ==
  \/ Marshal /\ UNCHANGED <<concVars, plVars, sosVars, nodeVars>>
  \/ Unmarshal /\ UNCHANGED <<concVars, plVars, sosVars, nodeVars>>
  \/ SetConfigField /\ UNCHANGED <<concVars, plVars, sosVars, nodeVars>>

Spec == Init /\ [][PMNext]_vars

-----------------------------------------------------------------------------
(* Claims about the dynamic-metadata codec, checked under Spec *)

\* The payload of the last call, as the object it denotes.
LastObject == json_Unmarshal_map(pmLast.payload.members)

DecodedOk ==
  /\ pmLast.op = "UnmarshalJSON"
  /\ pmLast.status = "ok"
  /\ pmLast.payload.shape = "object"

\* C1: MarshalJSON never mutates the record: ID and Config after the call
\* equal ID and Config before it, for every record.
C1_MarshalNeverMutates ==
  pmLast.op = "MarshalJSON" => pm = pmLast.before

\* C2: after a successful decode of a payload object, a string "id" becomes ID
\* and Config is the payload without "id"; with no "id", ID is empty and
\* Config is the payload, whatever the receiver held before.
C2_DecodeSetsIdAndConfig ==
  DecodedOk =>
    IF "id" \in DOMAIN LastObject
    THEN /\ LastObject["id"].kind = "string"
         /\ pm.ID = LastObject["id"].val
         /\ pm.Config = MakeConfig(Delete(LastObject, "id"))
    ELSE /\ pm.ID = ""
         /\ pm.Config = MakeConfig(LastObject)

\* C3: a payload object whose "id" is present and not a JSON string (number,
\* boolean, null, array, object) makes UnmarshalJSON return InvalidIdentifier:
\* an error value, neither a crash nor a success.
C3_NonStringIdIsError ==
  ( /\ pmLast.op = "UnmarshalJSON"
    /\ pmLast.payload.shape = "object"
    /\ "id" \in DOMAIN LastObject
    /\ LastObject["id"].kind # "string" )
  => pmLast.status = "InvalidIdentifier"

\* A MarshalJSON call on a receiver just decoded from a payload with a string "id".
ReencodedWithId ==
  /\ pmLast.op = "MarshalJSON"
  /\ pmLast.payload.shape = "object"
  /\ "id" \in DOMAIN LastObject
  /\ LastObject["id"].kind = "string"

\* C4: round trip: re-encoding a record decoded from a payload object P with a
\* string "id" gives an object equal to P, in which "id" stands exactly once,
\* beside the configuration fields, and equals the decoded identifier.
C4_RoundTrip ==
  ReencodedWithId =>
    /\ json_Unmarshal_map(pmLast.out) = LastObject
    /\ Cardinality({i \in DOMAIN pmLast.out : pmLast.out[i][1] = "id"}) = 1
    /\ \A i \in DOMAIN pmLast.out :
         pmLast.out[i][1] = "id" => pmLast.out[i][2] = JString(pmLast.before.ID)

\* C4's case: a payload with "id" and a configuration field was decoded and
\* re-encoded.
C4_Witness ==
  /\ ReencodedWithId
  /\ "x" \in DOMAIN LastObject
  /\ Len(pmLast.out) = 2
  /\ pmLast.payload.members[1][1] = "x"

-----------------------------------------------------------------------------
(* Concurrent MarshalJSON calls on one PluginMetadata.  The method takes no   *)
(* lock, so its statements interleave freely; each statement reads s.Config   *)
(* afresh.  Two unsynchronised accesses to one map, one of them a write, are  *)
(* a data race: the runtime may run them in either order or end the process   *)
(* with "fatal error: concurrent map writes" (or "... iteration and map       *)
(* write").                                                                   *)

Goroutines == 1..NumGoroutines

ConcInit ==
  /\ pm \in PMInitValues
  /\ pmLast = [NoCall EXCEPT !.before = pm]
  /\ gs = [g \in Goroutines |-> [pc |-> "check", out |-> <<>>]]
  /\ crashed = FALSE
  /\ PlIdle
  /\ SosIdle
  /\ NodesIdle

\* if s.Config == nil
CheckNil(g) ==
  /\ ~crashed
  /\ gs[g].pc = "check"
  /\ gs' = [gs EXCEPT ![g].pc = IF pm.Config.isNil THEN "make" ELSE "set"]
  /\ UNCHANGED <<pm, pmLast, crashed, plVars, sosVars, nodeVars>>

\* s.Config = make(map[string]interface{})
MakeMap(g) ==
  /\ ~crashed
  /\ gs[g].pc = "make"
  /\ pm' = [pm EXCEPT !.Config = MakeConfig(EmptyMap)]
  /\ gs' = [gs EXCEPT ![g].pc = "set"]
  /\ UNCHANGED <<pmLast, crashed, plVars, sosVars, nodeVars>>

\* s.Config["id"] = s.ID
StoreId(g) ==
  /\ ~crashed
  /\ gs[g].pc = "set"
  /\ pm' = SetConfigId(pm)
  /\ gs' = [gs EXCEPT ![g].pc = "marshal"]
  /\ UNCHANGED <<pmLast, crashed, plVars, sosVars, nodeVars>>

\* p, err := json.Marshal(s.Config)
EncodeConfig(g) ==
  /\ ~crashed
  /\ gs[g].pc = "marshal"
  /\ gs' = [gs EXCEPT ![g].pc = "delete", ![g].out = json_Marshal_map(pm.Config.m)]
  /\ UNCHANGED <<pm, pmLast, crashed, plVars, sosVars, nodeVars>>

\* delete(s.Config, "id"); return p, err
RemoveId(g) ==
  /\ ~crashed
  /\ gs[g].pc = "delete"
  /\ pm' = DeleteConfigId(pm)
  /\ gs' = [gs EXCEPT ![g].pc = "done"]
  /\ UNCHANGED <<pmLast, crashed, plVars, sosVars, nodeVars>>

\* Two goroutines stand at accesses to the map, one of them a write: the
\* runtime's race check may end the process.
MapRace(g, h) ==
  /\ ~crashed
  /\ g # h
  /\ gs[g].pc \in {"set", "delete"}
  /\ gs[h].pc \in {"set", "marshal", "delete"}
  /\ crashed' = TRUE
  /\ UNCHANGED <<pm, pmLast, gs, plVars, sosVars, nodeVars>>

ConcNext ==
  \/ \E g \in Goroutines : CheckNil(g)
  \/ \E g \in Goroutines : MakeMap(g)
  \/ \E g \in Goroutines : StoreId(g)
  \/ \E g \in Goroutines : EncodeConfig(g)
  \/ \E g \in Goroutines : RemoveId(g)
  \/ \E g, h \in Goroutines : MapRace(g, h)

SpecConc == ConcInit /\ [][ConcNext]_vars

\* C5: under any interleaving of concurrent MarshalJSON calls on one value,
\* every call returns the object it returns when run alone: Config's fields
\* plus "id" equal to ID.
C5_ConcurrentMarshalAsAlone ==
  \A g \in DOMAIN gs :
    gs[g].pc = "done" => gs[g].out = PluginMetadata_MarshalJSON(pmLast.before).out

-----------------------------------------------------------------------------
(* Plugins values copied with DeepCopy and mutated by the callers holding    *)
(* them.  The first value is one a decode produced, or the nil map.          *)

PlInit ==
  /\ PMIdle
  /\ ConcIdle
  /\ \E cont \in PluginsPayloads :
       LET r == Plugins_UnmarshalJSON(<<>>, NilPlugins, cont)
           c == Collect(r.heap, [h \in Handles |-> IF h = "p" THEN r.p ELSE NoPlugins])
       IN  /\ heap = c.heap
           /\ pls = c.pls
  /\ plLast = NoPlCall
  /\ SosIdle
  /\ NodesIdle

PlNext ==
  \/ PlDeepCopy /\ UNCHANGED <<pmVars, concVars, sosVars, nodeVars>>
  \/ PlAddPlugin /\ UNCHANGED <<pmVars, concVars, sosVars, nodeVars>>
  \/ PlRemovePlugin /\ UNCHANGED <<pmVars, concVars, sosVars, nodeVars>>
  \/ PlSetField /\ UNCHANGED <<pmVars, concVars, sosVars, nodeVars>>
  \/ PlDeleteField /\ UNCHANGED <<pmVars, concVars, sosVars, nodeVars>>
  \/ PlSetNested /\ UNCHANGED <<pmVars, concVars, sosVars, nodeVars>>

SpecPlugins == PlInit /\ [][PlNext]_vars

\* C6: DeepCopy yields an independent duplicate: a mutation of one Plugins
\* value (adding or removing a plugin, changing a top-level or a nested field)
\* leaves every other value, the original and the other copies, unchanged.
C6_CopiesIndependent ==
  [][\A h \in Handles :
       (pls[h].made /\ DeepVal(heap', pls'[h]) # DeepVal(heap, pls[h]))
         => plLast'.target = h]_vars

\* C6's case: with the original and two copies held, a nested field of a
\* copy was changed, and the original still has the value it was decoded with.
C6_Witness ==
  /\ plLast.op = "SetNested"
  /\ plLast.target = "c1"
  /\ pls["c2"].made
  /\ \E nm \in DOMAIN pls["p"].m :
       /\ nm \in DOMAIN pls["c1"].m
       /\ "n" \in DOMAIN heap[pls["p"].m[nm]]
       /\ TreeOf(heap, pls["p"].m[nm])["n"] = Obj([k \in {"k"} |-> Num(1)])
       /\ TreeOf(heap, pls["c1"].m[nm])["n"] = Obj([k \in {"k"} |-> Num(3)])

\* C7: DeepCopy returns a duplicate: the copy has exactly the plugin names of
\* its receiver and, for each name, a record equal to the receiver's.
C7_DeepCopyIsDuplicate ==
  plLast.op = "DeepCopy" =>
    DeepVal(heap, pls[plLast.target]) = DeepVal(heap, pls[plLast.src])

-----------------------------------------------------------------------------
(* Plugins.UnmarshalJSON called on one value, again and again *)

DecInit ==
  /\ PMIdle
  /\ ConcIdle
  /\ PlIdle
  /\ SosIdle
  /\ NodesIdle

DecNext ==
  \/ PlDecode /\ UNCHANGED <<pmVars, concVars, sosVars, nodeVars>>

SpecDecode == DecInit /\ [][DecNext]_vars

\* The payload of the last decode, as the mapping it denotes.
LastPlugins == json_Unmarshal_map(plLast.payload.members)

PlDecodedOk ==
  /\ plLast.op = "UnmarshalJSON"
  /\ plLast.status = "ok"
  /\ plLast.payload.shape = "object"

\* Every payload name maps to defaults(name, supplied record); a name the
\* provider does not know maps to the supplied record itself.
PayloadEntriesStored ==
  \A nm \in DOMAIN LastPlugins :
    /\ nm \in DOMAIN pls["p"].m
    /\ TreeOf(heap, pls["p"].m[nm])
         = GetPluginDefaultValues(nm, ParseRecord(LastPlugins[nm]))
    /\ nm \notin DOMAIN PluginDefaults
         => TreeOf(heap, pls["p"].m[nm]) = ParseRecord(LastPlugins[nm])

\* C8 as stated: after a successful decode of a payload object the receiver
\* maps exactly the payload's plugin names, each to defaults(name, supplied).
C8_ExactlyPayloadNames ==
  PlDecodedOk =>
    /\ DOMAIN pls["p"].m = DOMAIN LastPlugins
    /\ PayloadEntriesStored

\* C8 amended: the receiver maps every payload name to defaults(name,
\* supplied), keeps the entries it held under other names as they were, and
\* holds no further name.
C8_PayloadNamesAdded ==
  PlDecodedOk =>
    /\ DOMAIN pls["p"].m = (DOMAIN LastPlugins) \cup (DOMAIN plLast.before)
    /\ PayloadEntriesStored
    /\ \A nm \in (DOMAIN plLast.before) \ (DOMAIN LastPlugins) :
         TreeOf(heap, pls["p"].m[nm]) = plLast.before[nm]

\* C8's case: a decode into a receiver that held another plugin stored a
\* known plugin with its default and an unknown one as supplied.
C8_Witness ==
  /\ PlDecodedOk
  /\ DOMAIN LastPlugins = {"limit-count"}
  /\ LastPlugins["limit-count"] = <<>>
  /\ "custom" \in DOMAIN plLast.before
  /\ "d" \in DOMAIN plLast.before["custom"]
  /\ TreeOf(heap, pls["p"].m["limit-count"]) = [f \in {"d"} |-> Num(1)]

-----------------------------------------------------------------------------
(* One StringOrSlice value, decoded into again and again and encoded *)

SosInit ==
  /\ PMIdle
  /\ ConcIdle
  /\ PlIdle
  /\ SosIdle
  /\ NodesIdle

SosNext ==
  \/ SosMarshal /\ UNCHANGED <<pmVars, concVars, plVars, nodeVars>>
  \/ SosUnmarshal /\ UNCHANGED <<pmVars, concVars, plVars, nodeVars>>

SpecSOS == SosInit /\ [][SosNext]_vars

\* C9: round trip: decoding the encoding of a StringOrSlice holding a list L
\* (empty, of one element, or longer) succeeds and leaves the receiver holding
\* the list L; the encoding is a JSON array, also for one element, and the
\* decode stores no scalar.
C9_ListRoundTrip ==
  \A L \in Lists :
    ( /\ sosLast.op = "UnmarshalJSON"
      /\ sosLast.payload = StringOrSlice_MarshalJSON([ZeroStringOrSlice EXCEPT !.SliceVal = Slice(L)]) )
    => /\ sosLast.status = "ok"
       /\ sosLast.payload[1] = TOpen
       /\ sos.SliceVal = Slice(L)
       /\ sos.StrVal = sosLast.before.StrVal
       /\ StringOrSlice_MarshalJSON(sos) = sosLast.payload

\* C9's case: the encoding of a one-element list was decoded into a receiver
\* that held a longer list.
C9_Witness ==
  /\ sosLast.op = "UnmarshalJSON"
  /\ sosLast.payload = <<TOpen, TStr("a"), TClose>>
  /\ Len(sosLast.before.SliceVal.s) = 2
  /\ sos.SliceVal = Slice(<<"a">>)

\* C10: after any sequence of successful decodes the value holds a scalar or a
\* list, never both, and the variant is that of the last payload decoded: a
\* scalar payload leaves no list, a list payload leaves no scalar.
C10_TaggedUnion ==
  (sosLast.op = "UnmarshalJSON" /\ sosLast.status = "ok"
     /\ sosLast.payload # <<TNull>>)
  => /\ ~(sos.StrVal # "" /\ ~sos.SliceVal.isNil)
     /\ (sosLast.payload[1] = TOpen) = (~sos.SliceVal.isNil)
     /\ (StringOrSlice_MarshalJSON(sos)[1] = TOpen) = (sosLast.payload[1] = TOpen)

-----------------------------------------------------------------------------
(* One UpstreamNodes value, decoded into again and again and encoded *)

NodesInit ==
  /\ PMIdle
  /\ ConcIdle
  /\ PlIdle
  /\ SosIdle
  /\ NodesIdle

NodesNext ==
  \/ NodesUnmarshal /\ UNCHANGED <<pmVars, concVars, plVars, sosVars>>
  \/ NodesMarshal /\ UNCHANGED <<pmVars, concVars, plVars, sosVars>>

SpecNodes == NodesInit /\ [][NodesNext]_vars

(* What the node-set claims say of a key, read off the key's text *)

ColonsOf(key) == {i \in DOMAIN key : key[i] = ":"}
PortText(key) == SubSeq(key, (CHOOSE i \in ColonsOf(key) : TRUE) + 1, Len(key))

WellFormedKey(key) ==
  \/ ColonsOf(key) = {}
  \/ /\ Cardinality(ColonsOf(key)) = 1
     /\ PortText(key) # <<>>
     /\ \A i \in DOMAIN PortText(key) : IsDigit(PortText(key)[i])

RECURSIVE PortNumber(_)
PortNumber(text) ==
  IF text = <<>> THEN 0
  ELSE PortNumber(SubSeq(text, 1, Len(text) - 1)) * 10 + DigitValue(text[Len(text)])

\* The integer between zero and val (in tenths) that is nearest to val.
Truncated(val) ==
  CHOOSE w \in -10..10 :
    IF val >= 0 THEN w * 10 <= val /\ val < (w + 1) * 10
    ELSE w * 10 >= val /\ val > (w - 1) * 10

ExpectedNode(key, val) ==
  IF ColonsOf(key) = {}
  THEN [Host |-> key, Port |-> 80, Weight |-> Truncated(val)]
  ELSE [Host |-> SubSeq(key, 1, (CHOOSE i \in ColonsOf(key) : TRUE) - 1),
        Port |-> PortNumber(PortText(key)), Weight |-> Truncated(val)]

PayloadKeys(p) == {p.members[i][1] : i \in DOMAIN p.members}
\* The value a key has in the payload: that of its last member.
PayloadValue(p, key) ==
  p.members[CHOOSE i \in DOMAIN p.members :
              /\ p.members[i][1] = key
              /\ \A j \in DOMAIN p.members : p.members[j][1] = key => j <= i][2]

MapDecode == nodesLast.op = "UnmarshalJSON" /\ nodesLast.payload.shape = "object"

\* C11: decoding a map-shaped payload whose keys are all "host" or
\* "host:port" with a numeric port yields no error and exactly one node per
\* key, in some order: host the text before the colon, port the number after
\* it or 80, weight the value truncated to an integer; {} yields no node.
C11_OneNodePerKey ==
  (MapDecode /\ \A k \in PayloadKeys(nodesLast.payload) : WellFormedKey(k))
    => /\ nodesLast.status = "ok"
       /\ Len(nodes.s) = Cardinality(PayloadKeys(nodesLast.payload))
       /\ \A k \in PayloadKeys(nodesLast.payload) :
            \E i \in DOMAIN nodes.s :
              nodes.s[i] = ExpectedNode(k, PayloadValue(nodesLast.payload, k))

\* Two keys, one with a port and one without, a weight of 3.7 and one of -1.5.
C11_Witness ==
  /\ MapDecode
  /\ PayloadKeys(nodesLast.payload) = GoodKeys
  /\ {nodesLast.payload.members[i][2] : i \in DOMAIN nodesLast.payload.members} = {37, -15}
  /\ Len(nodes.s) = 2
  /\ nodes.s[1].Port = 80

\* {} decoded into a populated receiver.
C11_WitnessEmpty ==
  /\ MapDecode
  /\ nodesLast.payload.members = <<>>
  /\ nodesLast.before.s # <<>>
  /\ nodes.s = <<>>

\* More than one colon, or a port segment that is empty or not all digits.
MalformedKey(key) ==
  \/ Cardinality(ColonsOf(key)) > 1
  \/ /\ Cardinality(ColonsOf(key)) = 1
     /\ \/ PortText(key) = <<>>
        \/ \E i \in DOMAIN PortText(key) : ~IsDigit(PortText(key)[i])

\* The errors of mapKV2Node: the MalformedNode kind.
MalformedNode == {"invalid upstream node", "parse port to int fail"}

\* C12: decoding a map-shaped payload in which any key has more than one
\* colon or a port segment that is not a number (an empty one included)
\* returns a MalformedNode error and leaves the receiver's node sequence as it
\* was, whatever the other keys are and in whatever order the keys are met.
C12_MalformedKeyFails ==
  (MapDecode /\ \E k \in PayloadKeys(nodesLast.payload) : MalformedKey(k))
    => /\ nodesLast.status \in MalformedNode
       /\ nodes = nodesLast.before

\* A key that parses next to one with an empty port, decoded into a receiver
\* that holds nodes.
C12_Witness ==
  /\ MapDecode
  /\ PayloadKeys(nodesLast.payload) = {<<"h">>, <<"h", ":">>}
  /\ nodesLast.status = "parse port to int fail"
  /\ nodesLast.before.s # <<>>
  /\ nodes = nodesLast.before

\* A key with two colons next to one that parses.
C12_WitnessColons ==
  /\ MapDecode
  /\ PayloadKeys(nodesLast.payload) = {<<"g", ":", "8", "1">>, <<"h", ":", "8", ":", "8">>}
  /\ nodesLast.status = "invalid upstream node"

\* C13: encoding an UpstreamNodes value always emits a JSON array of node
\* records, whatever the value: a sequence with nodes, an empty one, the one
\* a decode of {} or of any map-shaped payload leaves; never an object, never
\* null.
C13_EncodeAlwaysArray ==
  nodesLast.op = "MarshalJSON" => nodesLast.out.shape = "array"

====
